---- MODULE Spec2Model ----
(***************************************************************************)
(* A model of NotesApp's BlockchainService (services/blockchainService.ts) *)
(* and of EncryptionService (services/encryptionService.ts): the digest    *)
(* the chain takes from it, and the encryption of notes; of the screens'   *)
(* add-to-blockchain handlers; and of StorageService, whose asynchronous   *)
(* calls are modelled in two steps, up to the await of the stored text     *)
(* and from there to the end.                                              *)
(*                                                                         *)
(* Strings that hold digests are modelled symbolically.  A string is a     *)
(* record [lead, rest, x]: lead is the sequence of its first (at most two) *)
(* hexadecimal characters, as numbers 0..15; rest stands for the remaining *)
(* characters and is, for a SHA-256 digest, the digested input itself      *)
(* (the digest is taken to be free of collisions); x # 0 says that one of  *)
(* the remaining characters was changed.  The leading characters of a      *)
(* digest are computed from its input by arithmetic modulo 256.            *)
(***************************************************************************)
EXTENDS Integers, Sequences, FiniteSets, TLC

\* BlockchainService.DIFFICULTY
DIFFICULTY == 2

\* Bounds of the model: the longest chain, the last clock value, the
\* number of importBlockchain calls in a run, and the number of distinct
\* salts encryptNote draws.
MaxChain == 3
MaxTime == 2
MaxImports == 1
MaxSalt == 2

VARIABLES chain,    \* BlockchainService.chain, a JSON value
          clock,    \* the last value the wall clock returned
          ret,      \* the last operation: its name, argument and outcome
          before,   \* BlockchainService.chain when the last operation began
          tamper,   \* the in-place change made to a stored block, if any
          imports,  \* the number of importBlockchain calls so far
          codec,    \* the last EncryptionService call: its arguments and outcome
          drawn,    \* the number of random salts drawn so far
          miner,    \* a mineBlock call in progress: its position and its block
          handlers, \* the add-to-blockchain handlers of the screens
          store,    \* AsyncStorage: the text under ENCRYPTED_NOTES_KEY, or null
          tasks,    \* the StorageService calls in flight
          last      \* the last StorageService call that completed

vars == <<chain, clock, ret, before, tamper, imports, codec, drawn,
          miner, handlers, store, tasks, last>>

codecVars == <<codec, drawn>>
mineVars == <<miner>>
handlerVars == <<handlers>>
storeVars == <<store, tasks, last>>

----------------------------------------------------------------------------
\* Strings

\* ''
EmptyStr == [lead |-> <<>>, rest |-> <<>>, x |-> 0]
\* '0', the previousHash of a genesis block
Sentinel == [lead |-> <<0>>, rest |-> <<>>, x |-> 0]

\* s.substring(0, n)
Substring(s, n) == SubSeq(s.lead, 1, IF n < Len(s.lead) THEN n ELSE Len(s.lead))

\* Array(n + 1).join('0'): n characters '0'
Zeros(n) == [i \in 1 .. n |-> 0]

\* Dates: a Date object, or the ISO string JSON.stringify writes for it.
DateOf(ms) == [t |-> "Date", ms |-> ms]
IsoOf(ms) == [t |-> "string", ms |-> ms]

\* What JSON.stringify writes for a date field: the ISO text of its instant,
\* for a Date (Date.prototype.toJSON) and for an ISO string alike.
DateJSON(d) == d.ms

StrCode(s) ==
  CASE s = "n1" -> 11
    [] s = "n2" -> 23
    [] s = "genesis" -> 37
    [] s = "ctA" -> 41
    [] s = "ctB" -> 59
    [] s = "Genesis Block" -> 73
    [] OTHER -> 0

\* JSON.stringify(block.data): the text, as the sequence of its values in
\* key order {id, encryptedData, createdAt, updatedAt}.
JSONstringifyData(data) ==
  <<data.id, data.encryptedData, DateJSON(data.createdAt), DateJSON(data.updatedAt)>>

----------------------------------------------------------------------------
\* EncryptionService.generateHash: SHA-256 as a hexadecimal string

\* A number computed from a string that is (or is not) a digest.
Fold(h) ==
  IF h.rest = <<>>
  THEN Len(h.lead)
  ELSE (16 * h.lead[1] + h.lead[2] + 17 * h.rest[4] + 3 * h.rest[2] + h.x) % 256

\* The first two hexadecimal characters of the digest of s, as one number.
Mix(s) ==
  (7 * Fold(s[1]) + 13 * s[2]
     + 29 * (StrCode(s[3][1]) + 3 * StrCode(s[3][2]) + 5 * s[3][3] + 11 * s[3][4])
     + 3 * s[4] + 63) % 256

generateHash(data) ==
  LET m == Mix(data)
  IN  [lead |-> <<m \div 16, m % 16>>, rest |-> data, x |-> 0]

----------------------------------------------------------------------------
\* Blocks

\* null, as an entry of an imported array
Null == [null |-> TRUE]

Block(id, hash, previousHash, timestamp, data, nonce) ==
  [id |-> id, hash |-> hash, previousHash |-> previousHash,
   timestamp |-> timestamp, data |-> data, nonce |-> nonce]

EncryptedNote(id, encryptedData, createdAt, updatedAt) ==
  [id |-> id, encryptedData |-> encryptedData,
   createdAt |-> createdAt, updatedAt |-> updatedAt]

\* `${block.previousHash}${block.timestamp}${JSON.stringify(block.data)}${block.nonce}`
BlockString(block) ==
  <<block.previousHash, block.timestamp, JSONstringifyData(block.data), block.nonce>>

calculateHash(block) == generateHash(BlockString(block))

\* createGenesisBlock returning the block with the hash it was built with
createGenesisBlockNoHash(t, tc, tu) ==
  Block("genesis", EmptyStr, Sentinel, t,
        EncryptedNote("genesis", "Genesis Block", DateOf(tc), DateOf(tu)), 0)

\* createGenesisBlock, with the three clock values it reads
createGenesisBlock(t, tc, tu) ==
  LET genesisBlock ==
        Block("genesis", EmptyStr, Sentinel, t,
              EncryptedNote("genesis", "Genesis Block", DateOf(tc), DateOf(tu)), 0)
  IN  [genesisBlock EXCEPT !.hash = calculateHash(genesisBlock)]

\* The loop body with its two statements in the other order
mineStepHashFirst(block) ==
  [block EXCEPT !.hash = calculateHash(block), !.nonce = @ + 1]

\* One pass of mineBlock's loop body: block.nonce++, then the hash again.
mineStep(block) ==
  LET next == [block EXCEPT !.nonce = @ + 1]
  IN  [next EXCEPT !.hash = calculateHash(next)]

\* The loop test with a cap on the number of passes
mineTestCapped(block) ==
  Substring(block.hash, DIFFICULTY) # Zeros(DIFFICULTY) /\ block.nonce < 8

\* The loop test on one character fewer
mineTestFirstChar(block) ==
  Substring(block.hash, DIFFICULTY - 1) # Zeros(DIFFICULTY - 1)

\* while (block.hash.substring(0, DIFFICULTY) !== target)
mineTest(block) == Substring(block.hash, DIFFICULTY) # Zeros(DIFFICULTY)

\* The loop, run for at most n passes.
RECURSIVE mineSteps(_, _)
mineSteps(block, n) ==
  IF n > 0 /\ mineTest(block) THEN mineSteps(mineStep(block), n - 1) ELSE block

\* The loop, run to its end sixteen passes at a time (which keeps the
\* evaluation shallow and changes nothing of what the loop computes).
RECURSIVE mineLoop(_)
mineLoop(block) ==
  LET b == mineSteps(block, 16)
  IN  IF mineTest(b) THEN mineLoop(b) ELSE b

\* mineBlock running its loop body once more after the test has passed
mineBlockExtraPass(block) == mineStep(mineLoop(block))

mineBlock(block) == mineLoop(block)

----------------------------------------------------------------------------
\* The chain is a JSON value: an array of blocks (or nulls), or null, or (after
\* an import) another value.
ArrayOf(items) == [kind |-> "array", items |-> items]
JSONNull == [kind |-> "null", items |-> <<>>]
\* JSON values that are neither: {}, a number, a boolean
JSONObject == [kind |-> "object", items |-> <<>>]
JSONNumber == [kind |-> "number", items |-> <<>>]
JSONBoolean == [kind |-> "boolean", items |-> <<>>]

\* Inputs of addNoteToBlockchain
NoteIds == {"n1", "n2"}
Payloads ==
  { EncryptedNote("n1", "ctA", DateOf(1), DateOf(1)),
    EncryptedNote("n2", "ctB", DateOf(1), DateOf(2)) }

\* addNoteToBlockchain taking the first block of the chain as the previous one
addNoteToBlockchainFirstBlock(c, encryptedNote, t, tc, tu, tb) ==
  IF c.kind # "array"
  THEN [threw |-> TRUE, chain |-> c, block |-> Null]
  ELSE
    LET items == IF Len(c.items) = 0
                 THEN <<createGenesisBlock(t, tc, tu)>>
                 ELSE c.items
        previousBlock == items[1]
    IN  IF previousBlock = Null
        THEN [threw |-> TRUE, chain |-> c, block |-> Null]
        ELSE LET newBlock == Block(encryptedNote.id, EmptyStr, previousBlock.hash,
                                   tb, encryptedNote, 0)
                 minedBlock == mineBlock(newBlock)
             IN  [threw |-> FALSE,
                  chain |-> ArrayOf(Append(items, minedBlock)),
                  block |-> minedBlock]

\* addNoteToBlockchain pushing a genesis block on every call
addNoteToBlockchainGenesisEach(c, encryptedNote, t, tc, tu, tb) ==
  IF c.kind # "array"
  THEN [threw |-> TRUE, chain |-> c, block |-> Null]
  ELSE
    LET items == Append(c.items, createGenesisBlock(t, tc, tu))
        previousBlock == items[Len(items)]
        newBlock == Block(encryptedNote.id, EmptyStr, previousBlock.hash,
                          tb, encryptedNote, 0)
        minedBlock == mineBlock(newBlock)
    IN  [threw |-> FALSE,
         chain |-> ArrayOf(Append(items, minedBlock)),
         block |-> minedBlock]

\* addNoteToBlockchain stamping the block with the time of the previous call
addNoteToBlockchainStaleTime(c, encryptedNote, t, tc, tu, tb) ==
  IF c.kind # "array"
  THEN [threw |-> TRUE, chain |-> c, block |-> Null]
  ELSE
    LET items == IF Len(c.items) = 0
                 THEN <<createGenesisBlock(t, tc, tu)>>
                 ELSE c.items
        previousBlock == items[Len(items)]
        newBlock == Block(encryptedNote.id, EmptyStr, previousBlock.hash,
                          t, encryptedNote, 0)
        minedBlock == mineBlock(newBlock)
    IN  [threw |-> FALSE,
         chain |-> ArrayOf(Append(items, minedBlock)),
         block |-> minedBlock]

\* addNoteToBlockchain putting the mined block in the place of the last one
addNoteToBlockchainReplaceTip(c, encryptedNote, t, tc, tu, tb) ==
  IF c.kind # "array"
  THEN [threw |-> TRUE, chain |-> c, block |-> Null]
  ELSE
    LET items == IF Len(c.items) = 0
                 THEN <<createGenesisBlock(t, tc, tu)>>
                 ELSE c.items
        previousBlock == items[Len(items)]
        newBlock == Block(encryptedNote.id, EmptyStr, previousBlock.hash,
                          tb, encryptedNote, 0)
        minedBlock == mineBlock(newBlock)
    IN  [threw |-> FALSE,
         chain |-> ArrayOf(IF Len(items) >= 2
                           THEN [items EXCEPT ![Len(items)] = minedBlock]
                           ELSE Append(items, minedBlock)),
         block |-> minedBlock]

\* addNoteToBlockchain(encryptedNote), reading the clock values t, tc, tu
\* (for a genesis block) and tb: the outcome [threw, chain, block].
addNoteToBlockchain(c, encryptedNote, t, tc, tu, tb) ==
  IF c.kind # "array"
  THEN [threw |-> TRUE, chain |-> c, block |-> Null]
  ELSE
    LET items == IF Len(c.items) = 0
                 THEN <<createGenesisBlock(t, tc, tu)>>
                 ELSE c.items
        previousBlock == items[Len(items)]
    IN  IF previousBlock = Null
        THEN [threw |-> TRUE, chain |-> c, block |-> Null]
        ELSE LET newBlock == Block(encryptedNote.id, EmptyStr, previousBlock.hash,
                                   tb, encryptedNote, 0)
                 minedBlock == mineBlock(newBlock)
             IN  [threw |-> FALSE,
                  chain |-> ArrayOf(Append(items, minedBlock)),
                  block |-> minedBlock]

----------------------------------------------------------------------------
\* validateChain: the outcome [threw, value]

\* The loop of validateChain from (1-based) index i on: "true", "false", or
\* "throw" where it reads a field of a null entry.
RECURSIVE validateFrom(_, _)
validateFrom(items, i) ==
  IF i > Len(items)
  THEN "true"
  ELSE LET currentBlock == items[i]
           previousBlock == items[i - 1]
       IN  IF currentBlock = Null THEN "throw"
           ELSE IF currentBlock.hash # calculateHash(currentBlock) THEN "false"
           ELSE IF previousBlock = Null THEN "throw"
           ELSE IF currentBlock.previousHash # previousBlock.hash THEN "false"
           ELSE validateFrom(items, i + 1)

validateChain(c) ==
  IF c.kind = "null"
  THEN [threw |-> TRUE, value |-> FALSE]
  ELSE IF c.kind # "array"
  \* an object, a number, a boolean: length is undefined, the loop is skipped
  THEN [threw |-> FALSE, value |-> TRUE]
  ELSE LET r == validateFrom(c.items, 2)
       IN  [threw |-> r = "throw", value |-> r = "true"]

\* chain.find(block => block.data.id === noteId) || null
RECURSIVE findFrom(_, _, _)
findFrom(items, noteId, i) ==
  IF i > Len(items) THEN [threw |-> FALSE, block |-> Null]
  ELSE IF items[i] = Null THEN [threw |-> TRUE, block |-> Null]
  ELSE IF items[i].data.id = noteId THEN [threw |-> FALSE, block |-> items[i]]
  ELSE findFrom(items, noteId, i + 1)

\* getChain(): [...this.chain], a new array of the same blocks
getChain(c) ==
  IF c.kind # "array"
  THEN [threw |-> TRUE, value |-> JSONNull]
  ELSE [threw |-> FALSE, value |-> ArrayOf(c.items)]

\* getBlockByNoteId returning the last block with the id
getBlockByNoteIdLast(c, noteId) ==
  IF c.kind # "array"
  THEN [threw |-> TRUE, block |-> Null]
  ELSE LET found == { i \in 1 .. Len(c.items) : c.items[i].data.id = noteId }
       IN  [threw |-> FALSE,
            block |-> IF found = {} THEN Null
                      ELSE c.items[CHOOSE i \in found : \A j \in found : j <= i]]

getBlockByNoteId(c, noteId) ==
  IF c.kind # "array"
  THEN [threw |-> TRUE, block |-> Null]
  ELSE findFrom(c.items, noteId, 1)

\* chain[chain.length - 1] of an empty array
Undefined == [undefined |-> TRUE]

\* getBlockchainStats without the validateChain call: isValid always true
getBlockchainStatsNoValidate(c) ==
  IF c.kind = "null"
  THEN [threw |-> TRUE, totalBlocks |-> 0, isValid |-> FALSE, lastBlock |-> Undefined]
  ELSE IF c.kind # "array"
  THEN [threw |-> FALSE, totalBlocks |-> Undefined, isValid |-> TRUE, lastBlock |-> Undefined]
  ELSE [threw |-> FALSE,
        totalBlocks |-> Len(c.items),
        isValid |-> TRUE,
        lastBlock |-> IF Len(c.items) = 0 THEN Undefined ELSE c.items[Len(c.items)]]

getBlockchainStats(c) ==
  IF c.kind = "null" \/ validateChain(c).threw
  THEN [threw |-> TRUE, totalBlocks |-> 0, isValid |-> FALSE, lastBlock |-> Undefined]
  ELSE IF c.kind # "array"
  \* an object, a number, a boolean: length and chain[length - 1] are undefined
  THEN [threw |-> FALSE, totalBlocks |-> Undefined, isValid |-> validateChain(c).value,
        lastBlock |-> Undefined]
  ELSE [threw |-> FALSE,
        totalBlocks |-> Len(c.items),
        isValid |-> validateChain(c).value,
        lastBlock |-> IF Len(c.items) = 0 THEN Undefined ELSE c.items[Len(c.items)]]

----------------------------------------------------------------------------
\* JSON texts.  A text that parses is modelled by the value it parses to.

\* What JSON.stringify writes for a payload: its dates as ISO strings.
dataToJSON(data) ==
  [data EXCEPT !.createdAt = IsoOf(DateJSON(@)), !.updatedAt = IsoOf(DateJSON(@))]

blockToJSON(b) == IF b = Null THEN Null ELSE [b EXCEPT !.data = dataToJSON(@)]

JSONstringify(c) ==
  [parses |-> TRUE,
   value |-> [kind |-> c.kind, items |-> [i \in 1 .. Len(c.items) |-> blockToJSON(c.items[i])]]]

\* JSON.stringify(this.chain, null, 2)
exportBlockchain(c) == JSONstringify(c)

\* A text JSON.parse rejects
Unparseable == [parses |-> FALSE, value |-> JSONNull]

JSONparse(text) ==
  IF text.parses
  THEN [threw |-> FALSE, value |-> text.value]
  ELSE [threw |-> TRUE, value |-> JSONNull]

\* importBlockchain without the restore of the chain it replaced
importBlockchainNoRollback(c, chainData) ==
  LET parsed == JSONparse(chainData)
  IN  IF parsed.threw
      THEN [chain |-> c, value |-> FALSE]
      ELSE LET valid == validateChain(parsed.value)
           IN  [chain |-> parsed.value, value |-> ~valid.threw /\ valid.value]

\* importBlockchain(chainData): the outcome [chain, value]; every exception
\* is caught, and the catch block returns false.
importBlockchain(c, chainData) ==
  LET parsed == JSONparse(chainData)
  IN  IF parsed.threw
      THEN [chain |-> c, value |-> FALSE]
      ELSE LET tempChain == c
               importedChain == parsed.value
               valid == validateChain(importedChain)
           IN  IF valid.threw THEN [chain |-> importedChain, value |-> FALSE]
               ELSE IF valid.value THEN [chain |-> importedChain, value |-> TRUE]
               ELSE [chain |-> tempChain, value |-> FALSE]

----------------------------------------------------------------------------
\* Changes a caller makes to a text, or to a stored block it holds.

HexDigits == 0 .. 15

\* One character of a digest string changed: the leading character pos
\* becomes d, or (pos = 0) one of the remaining characters becomes another
\* (x = 0 is the character as digested, 1 and 2 are two others).
FlipHex(h, pos, d) ==
  IF pos = 0 THEN [h EXCEPT !.x = d] ELSE [h EXCEPT !.lead[pos] = d]

Flips(h) ==
  ({ FlipHex(h, 0, d) : d \in 0 .. 2 } \cup
   { FlipHex(h, pos, d) : pos \in 1 .. Len(h.lead), d \in HexDigits }) \ { h }

WellFormed(c) == c.kind = "array" /\ \A i \in 1 .. Len(c.items) : c.items[i] # Null

\* One change for each character of h.
FlipsNear(h) ==
  { FlipHex(h, 0, (h.x + 1) % 3) } \cup
  { FlipHex(h, pos, (h.lead[pos] + 1) % 16) : pos \in 1 .. Len(h.lead) }

\* The chains of two blocks or more that differ from c in one hex character
\* of one stored hash.
HashFlipped(c) ==
  IF ~WellFormed(c) \/ Len(c.items) < 2 THEN {}
  ELSE UNION { { [c EXCEPT !.items[i].hash = h] : h \in Flips(c.items[i].hash) }
               : i \in 1 .. Len(c.items) }

\* The chains that differ from c in the payload of one stored block.
PayloadChanged(c) ==
  IF ~WellFormed(c) THEN {}
  ELSE { [c EXCEPT !.items[i].data.encryptedData = "ctX"] : i \in 1 .. Len(c.items) }

\* A block sealed without mining: nonce 0 and the digest of its fields.
Unmined(id, previousHash, t, data) ==
  LET b == Block(id, EmptyStr, previousHash, t, data, 0)
  IN  [b EXCEPT !.hash = calculateHash(b)]

ForeignGenesis == blockToJSON(createGenesisBlock(1, 1, 1))
ForeignData == dataToJSON(EncryptedNote("n2", "ctA", DateOf(1), DateOf(1)))

\* Texts written by hand, not exported.
ForeignTexts ==
  { [tag |-> "unparseable", text |-> Unparseable],
    [tag |-> "null", text |-> JSONstringify(JSONNull)],
    [tag |-> "empty", text |-> JSONstringify(ArrayOf(<<>>))],
    [tag |-> "nulls", text |-> JSONstringify(ArrayOf(<<Null>>))],
    [tag |-> "nulls", text |-> JSONstringify(ArrayOf(<<Null, Null>>))],
    [tag |-> "unmined",
     text |-> JSONstringify(ArrayOf(<<ForeignGenesis,
                Unmined("n2", ForeignGenesis.hash, 1, ForeignData)>>))],
    [tag |-> "badGenesis",
     text |-> LET g == [ForeignGenesis EXCEPT !.hash = FlipHex(@, 0, 1)]
              IN  JSONstringify(ArrayOf(<<g,
                    mineBlock(Block("n2", EmptyStr, g.hash, 1, ForeignData, 0))>>))],
    [tag |-> "badLink",
     text |-> JSONstringify(ArrayOf(<<ForeignGenesis,
                mineBlock(Block("n2", EmptyStr, Sentinel, 1, ForeignData, 0))>>))] }

\* Texts that parse, but not to an array: '{}', '5', 'true'
NonArrayTexts ==
  { [tag |-> "object", text |-> JSONstringify(JSONObject)],
    [tag |-> "number", text |-> JSONstringify(JSONNumber)],
    [tag |-> "boolean", text |-> JSONstringify(JSONBoolean)] }

\* The texts given to importBlockchain in a state whose chain is c.
Candidates(c) ==
  ForeignTexts
  \cup { [tag |-> "export", text |-> exportBlockchain(c)] }
  \cup { [tag |-> "flipHash", text |-> JSONstringify(f)] : f \in HashFlipped(c) }
  \cup { [tag |-> "changePayload", text |-> JSONstringify(f)] : f \in PayloadChanged(c) }
  \cup (IF WellFormed(c) /\ Len(c.items) >= 2
        THEN { [tag |-> "dropGenesis", text |-> JSONstringify(ArrayOf(Tail(c.items)))] }
        ELSE {})

----------------------------------------------------------------------------
\* EncryptionService.encryptNote, decryptNote and verifyHash

\* EncryptionService.ENCRYPTION_KEY, and some other passphrase
ENCRYPTION_KEY == "notes-app-secret-key-256-bit-secure"
OtherKey == "some-other-passphrase"

Note(id, title, content, createdAt, updatedAt, tags) ==
  [id |-> id, title |-> title, content |-> content,
   createdAt |-> createdAt, updatedAt |-> updatedAt, tags |-> tags]

\* A text is a JSON text, given by the value it parses to, or another text,
\* given by its characters.
JSONText(value) == [json |-> value]
PlainText(s) == [plain |-> s]

\* JSON values besides arrays and null: an object with its own properties,
\* a number
ObjectOf(fields) == [kind |-> "object", fields |-> fields]
NumberOf(n) == [kind |-> "number", n |-> n]

\* JSON.stringify({title, content, tags}): a property whose value is
\* undefined is left out of the text.
JSONstringifyNote(title, content, tags) ==
  JSONText(ObjectOf(IF tags = Undefined
                    THEN [title |-> title, content |-> content]
                    ELSE [title |-> title, content |-> content, tags |-> tags]))

\* value[key], for a value that is neither null nor undefined
Prop(value, key) ==
  IF value.kind = "object" /\ key \in DOMAIN value.fields
  THEN value.fields[key]
  ELSE Undefined

\* CryptoJS.AES.encrypt that salts every text alike
AESencryptNoSalt(text, key, salt) == [key |-> key, salt |-> 0, pt |-> text]

\* CryptoJS.AES.encrypt(text, passphrase).toString(): the OpenSSL text of the
\* random salt it drew and of text under the key and the initialization
\* vector derived from passphrase and salt.
AESencrypt(text, key, salt) == [key |-> key, salt |-> salt, pt |-> text]

\* Strings no AES.encrypt wrote: '', and a text that is not a ciphertext
EmptyCipher == [empty |-> TRUE]
Garbled == [garbled |-> TRUE]

\* decryptedBytes.toString(CryptoJS.enc.Utf8) gives a text, or throws
\* 'Malformed UTF-8 data'.
Utf8(text) == [utf8 |-> text]
MalformedUtf8 == [malformed |-> TRUE]

\* What AES.decrypt gives under a key the text was not encrypted with:
\* arbitrary bytes, cut by the Pkcs7 unpadding (which takes the last byte as
\* the pad length and checks nothing) to any length: no valid UTF-8, no
\* bytes at all, a text that is no JSON, or one that is, such as a lone digit.
Garbage ==
  { MalformedUtf8, Utf8(PlainText("")), Utf8(PlainText("k#")),
    Utf8(JSONText(NumberOf(7))) }

\* CryptoJS.AES.decrypt(ciphertext, passphrase): the results it can give
AESdecrypt(ciphertext, key) ==
  IF "empty" \in DOMAIN ciphertext THEN { Utf8(PlainText("")) }
  ELSE IF "pt" \in DOMAIN ciphertext /\ ciphertext.key = key
       THEN { Utf8(ciphertext.pt) }
       ELSE Garbage

\* encryptNote that leaves the tags out of the encrypted text
encryptNoteNoTags(note, salt) ==
  LET noteData == JSONstringifyNote(note.title, note.content, Undefined)
      encrypted == AESencrypt(noteData, ENCRYPTION_KEY, salt)
  IN  [threw |-> FALSE,
       payload |-> EncryptedNote(note.id, encrypted, note.createdAt, note.updatedAt)]

\* encryptNote(note), with the salt AES.encrypt draws
encryptNote(note, salt) ==
  LET noteData == JSONstringifyNote(note.title, note.content, note.tags)
      encrypted == AESencrypt(noteData, ENCRYPTION_KEY, salt)
  IN  [threw |-> FALSE,
       payload |-> EncryptedNote(note.id, encrypted, note.createdAt, note.updatedAt)]

\* throw new Error('Failed to decrypt note')
FailedToDecrypt == [threw |-> TRUE, note |-> Null]

\* decryptNote(encryptedNote), with the result decryptedBytes of AES.decrypt
decryptNote(encryptedNote, decryptedBytes) ==
  IF "malformed" \in DOMAIN decryptedBytes THEN FailedToDecrypt
  ELSE LET decryptedData == decryptedBytes.utf8
       IN  IF decryptedData = PlainText("") THEN FailedToDecrypt
           ELSE IF "plain" \in DOMAIN decryptedData THEN FailedToDecrypt
           ELSE LET noteData == decryptedData.json
                IN  IF noteData.kind = "null" THEN FailedToDecrypt
                    ELSE [threw |-> FALSE,
                          note |-> Note(encryptedNote.id,
                                        Prop(noteData, "title"),
                                        Prop(noteData, "content"),
                                        encryptedNote.createdAt,
                                        encryptedNote.updatedAt,
                                        Prop(noteData, "tags"))]

\* verifyHash comparing the first two characters only
verifyHashLead(data, hash) == generateHash(data).lead = hash.lead

verifyHash(data, hash) ==
  LET generatedHash == generateHash(data)
  IN  generatedHash = hash

\* The notes of the model: with no tags property, with no tag, with one tag.
Notes ==
  { Note(id, "t", "c", DateOf(1), DateOf(2), tags) :
      id \in NoteIds, tags \in {Undefined, ArrayOf(<<>>), ArrayOf(<<"home">>)} }

\* Encrypted notes that encryptNote did not write: encrypted under another
\* key, not a ciphertext, the empty string, and an empty text and a text
\* that is no JSON under the key of the application.
ForeignNotes ==
  { [src |-> "otherKey",
     arg |-> EncryptedNote("n1", AESencrypt(JSONstringifyNote("t", "c", Undefined), OtherKey, 0),
                           DateOf(1), DateOf(2))],
    [src |-> "malformed", arg |-> EncryptedNote("n1", Garbled, DateOf(1), DateOf(2))],
    [src |-> "empty", arg |-> EncryptedNote("n1", EmptyCipher, DateOf(1), DateOf(2))],
    [src |-> "emptyText",
     arg |-> EncryptedNote("n1", AESencrypt(PlainText(""), ENCRYPTION_KEY, 0),
                           DateOf(1), DateOf(2))],
    [src |-> "notJSON",
     arg |-> EncryptedNote("n1", AESencrypt(PlainText("hello"), ENCRYPTION_KEY, 0),
                           DateOf(1), DateOf(2))] }

\* The strings the model digests, and the strings it compares digests with:
\* their digests, and these with one character changed.
HashInputs ==
  { BlockString(Block("b", EmptyStr, Sentinel, t, p, nonce)) :
      t \in {1, 2}, p \in Payloads, nonce \in {0, 1} }

HashTexts ==
  UNION { { generateHash(y) } \cup FlipsNear(generateHash(y)) : y \in HashInputs }

----------------------------------------------------------------------------
Ret(op, arg, threw, bool, block, count) ==
  [op |-> op, arg |-> arg, threw |-> threw, bool |-> bool, block |-> block,
   count |-> count]

chainVars == <<chain, clock, ret, before, tamper, imports>>

\* No EncryptionService call yet
NoCall ==
  [op |-> "none", note |-> Null, payload |-> Null, prior |-> Null,
   src |-> "", arg |-> Null, threw |-> FALSE, out |-> Null,
   data |-> <<>>, hash |-> EmptyStr, result |-> FALSE]

\* encryptNote(note); prior keeps the call before this one.
EncryptNote ==
  /\ drawn < MaxSalt
  /\ drawn' = drawn + 1
  /\ \E note \in Notes :
       LET out == encryptNote(note, drawn + 1)
       IN  codec' = [NoCall EXCEPT
                       !.op = "encrypt", !.note = note, !.payload = out.payload,
                       !.threw = out.threw,
                       !.prior = IF codec.payload = Null THEN Null
                                 ELSE [note |-> codec.note, payload |-> codec.payload]]
  /\ UNCHANGED <<chainVars, mineVars, handlerVars, storeVars>>

\* decryptNote(encryptedNote), of what the last encryptNote returned or of an
\* encrypted note from elsewhere
DecryptNote ==
  /\ \E cand \in ForeignNotes \cup
                 (IF codec.payload = Null THEN {}
                  ELSE { [src |-> "encryptNote", arg |-> codec.payload] }) :
     \E decryptedBytes \in AESdecrypt(cand.arg.encryptedData, ENCRYPTION_KEY) :
       LET out == decryptNote(cand.arg, decryptedBytes)
       IN  codec' = [codec EXCEPT
                       !.op = "decrypt", !.src = cand.src, !.arg = cand.arg,
                       !.threw = out.threw, !.out = out.note]
  /\ UNCHANGED <<drawn, chainVars, mineVars, handlerVars, storeVars>>

GenerateHash ==
  /\ \E data \in HashInputs :
       codec' = [NoCall EXCEPT !.op = "hash", !.data = data, !.hash = generateHash(data)]
  /\ UNCHANGED <<drawn, chainVars, mineVars, handlerVars, storeVars>>

VerifyHash ==
  /\ \E data \in HashInputs : \E hash \in HashTexts :
       codec' = [NoCall EXCEPT !.op = "verify", !.data = data, !.hash = hash,
                               !.result = verifyHash(data, hash)]
  /\ UNCHANGED <<drawn, chainVars, mineVars, handlerVars, storeVars>>

----------------------------------------------------------------------------
\* mineBlock, one pass of its loop at a time

NotMining == [pc |-> "idle", block |-> Null]

\* A genesis block, as the chain's last block when mineBlock is called
Tips == { createGenesisBlock(t, t, t) : t \in 1 .. MaxTime }

\* The blocks addNoteToBlockchain gives to mineBlock: hash '', nonce 0
MineCandidates ==
  { Block(p.id, EmptyStr, tip.hash, t, p, 0) :
      p \in Payloads, tip \in Tips, t \in 1 .. MaxTime }

\* mineBlock(block) is called: const target = ...
MineCall ==
  /\ miner.pc # "loop"
  /\ \E block \in MineCandidates : miner' = [pc |-> "loop", block |-> block]
  /\ UNCHANGED <<chainVars, codecVars, handlerVars, storeVars>>

\* the loop test holds: block.nonce++; block.hash = this.calculateHash(block)
MinePass ==
  /\ miner.pc = "loop" /\ mineTest(miner.block)
  /\ miner' = [miner EXCEPT !.block = mineStep(@)]
  /\ UNCHANGED <<chainVars, codecVars, handlerVars, storeVars>>

\* the loop test fails: return block
MineReturn ==
  /\ miner.pc = "loop" /\ ~mineTest(miner.block)
  /\ miner' = [miner EXCEPT !.pc = "returned"]
  /\ UNCHANGED <<chainVars, codecVars, handlerVars, storeVars>>

----------------------------------------------------------------------------
\* handleAddToBlockchain of NotesListScreen and ViewNoteScreen

\* The handlers that can be triggered in a run
Handlers == {1, 2, 3}
Idle == [pc |-> "idle", payload |-> Null, block |-> Null]

\* A handler body that gives up control between mineBlock and the push
AwaitPointsAfterMining == {"mined"}

\* The points of the handler body (encryptNote; addNoteToBlockchain: genesis,
\* previous block, mineBlock, "mined", push; Alert.alert) at which it gives up
\* control: the body and the methods it calls hold no await.
AwaitPoints == {}

\* The handler is triggered (a tap, or the dialog's onPress): its body is
\* queued for the event loop with the note it was triggered for.
PressAddToBlockchain ==
  /\ \E h \in Handlers : \E p \in Payloads :
       /\ handlers[h].pc = "idle"
       /\ handlers' = [handlers EXCEPT ![h] = [pc |-> "queued", payload |-> p, block |-> Null]]
  /\ UNCHANGED <<chainVars, codecVars, mineVars, storeVars>>

\* The event loop runs a handler from where it stands to its next await
\* point, or to its end.
RunHandler ==
  /\ \E h \in Handlers : \E t \in clock .. MaxTime :
       \/ /\ handlers[h].pc = "queued"
          /\ LET out == addNoteToBlockchain(chain, handlers[h].payload, t, t, t, t)
             IN  IF "mined" \in AwaitPoints
                 THEN /\ chain' = ArrayOf(SubSeq(out.chain.items, 1, Len(out.chain.items) - 1))
                      /\ handlers' = [handlers EXCEPT ![h].pc = "mined", ![h].block = out.block]
                      /\ ret' = Ret("mined", handlers[h].payload.id, FALSE, FALSE, out.block, 0)
                 ELSE /\ chain' = out.chain
                      /\ handlers' = [handlers EXCEPT ![h].pc = "done", ![h].block = out.block]
                      /\ ret' = Ret("append", handlers[h].payload.id, out.threw, FALSE, out.block, 0)
          /\ clock' = t
       \/ /\ handlers[h].pc = "mined"
          /\ chain' = ArrayOf(Append(chain.items, handlers[h].block))
          /\ handlers' = [handlers EXCEPT ![h].pc = "done"]
          /\ ret' = Ret("append", handlers[h].payload.id, FALSE, FALSE, handlers[h].block, 0)
          /\ clock' = clock
  /\ before' = chain
  /\ UNCHANGED <<tamper, imports, codecVars, mineVars, storeVars>>

----------------------------------------------------------------------------
\* StorageService over AsyncStorage

\* JSON.stringify(encryptedNotes): the text of the array, dates as ISO strings
JSONstringifyNotes(encryptedNotes) ==
  [parses |-> TRUE,
   value |-> ArrayOf([i \in 1 .. Len(encryptedNotes) |-> dataToJSON(encryptedNotes[i])])]

\* saveNotes writing the notes as they are
saveNotesPlain(notes, salts) == JSONstringifyNotes(notes)

\* saveNotes(notes): the text it gives to AsyncStorage.setItem under
\* ENCRYPTED_NOTES_KEY; salts[i] is the salt drawn for notes[i].
saveNotes(notes, salts) ==
  LET encryptedNotes == [i \in 1 .. Len(notes) |-> encryptNote(notes[i], salts[i]).payload]
  IN  JSONstringifyNotes(encryptedNotes)

\* new Date(d), for a Date or an ISO string
NewDate(d) == DateOf(d.ms)

\* loadNotes(), continued with the value encryptedData that getItem resolved
\* to: the outcome [threw, notes].  (AES.decrypt of a text saveNotes wrote
\* has one result.)
loadNotes(encryptedData) ==
  IF encryptedData = Null
  THEN [threw |-> FALSE, notes |-> <<>>]
  ELSE LET encryptedNotes == JSONparse(encryptedData).value.items
           decryptedNote(i) ==
             decryptNote(encryptedNotes[i],
                         CHOOSE bytes \in AESdecrypt(encryptedNotes[i].encryptedData,
                                                     ENCRYPTION_KEY) : TRUE)
       IN  IF \E i \in 1 .. Len(encryptedNotes) : decryptedNote(i).threw
           THEN [threw |-> TRUE, notes |-> <<>>]
           ELSE [threw |-> FALSE,
                 notes |-> [i \in 1 .. Len(encryptedNotes) |->
                              [decryptedNote(i).note EXCEPT !.createdAt = NewDate(@),
                                                            !.updatedAt = NewDate(@)]]]

\* existingNotes.findIndex(n => n.id === id), from 1; 0 for none
findIndex(existingNotes, id) ==
  IF \E i \in 1 .. Len(existingNotes) : existingNotes[i].id = id
  THEN CHOOSE i \in 1 .. Len(existingNotes) :
         /\ existingNotes[i].id = id
         /\ \A j \in 1 .. i - 1 : existingNotes[j].id # id
  ELSE 0

\* existingNotes.filter(note => note.id !== noteId)
RECURSIVE filterNotes(_, _)
filterNotes(existingNotes, noteId) ==
  IF existingNotes = <<>> THEN <<>>
  ELSE IF Head(existingNotes).id = noteId
       THEN filterNotes(Tail(existingNotes), noteId)
       ELSE <<Head(existingNotes)>> \o filterNotes(Tail(existingNotes), noteId)

\* saveNote that always pushes the note
saveNotePush(encryptedData, note, salts) ==
  LET loaded == loadNotes(encryptedData)
  IN  IF loaded.threw THEN [threw |-> TRUE, text |-> encryptedData]
      ELSE [threw |-> FALSE, text |-> saveNotes(Append(loaded.notes, note), salts)]

\* saveNote(note), continued with the value encryptedData that getItem
\* resolved to: the outcome [threw, text], text being what it writes.
saveNote(encryptedData, note, salts) ==
  LET loaded == loadNotes(encryptedData)
  IN  IF loaded.threw THEN [threw |-> TRUE, text |-> encryptedData]
      ELSE LET existingNotes == loaded.notes
               noteIndex == findIndex(existingNotes, note.id)
           IN  [threw |-> FALSE,
                text |-> saveNotes(IF noteIndex >= 1
                                   THEN [existingNotes EXCEPT ![noteIndex] = note]
                                   ELSE Append(existingNotes, note),
                                   salts)]

\* deleteNote(noteId), continued in the same way
deleteNote(encryptedData, noteId, salts) ==
  LET loaded == loadNotes(encryptedData)
  IN  IF loaded.threw THEN [threw |-> TRUE, text |-> encryptedData]
      ELSE [threw |-> FALSE, text |-> saveNotes(filterNotes(loaded.notes, noteId), salts)]

\* getNote(noteId), continued in the same way: the outcome [threw, note]
getNote(encryptedData, noteId) ==
  LET loaded == loadNotes(encryptedData)
  IN  IF loaded.threw THEN [threw |-> TRUE, note |-> Null]
      ELSE LET noteIndex == findIndex(loaded.notes, noteId)
           IN  [threw |-> FALSE,
                note |-> IF noteIndex >= 1 THEN loaded.notes[noteIndex] ELSE Null]

\* The notes the screens save: a note, the note edited, and another note
StoreNotes ==
  { Note("n1", "t", "c", DateOf(1), DateOf(1), ArrayOf(<<>>)),
    Note("n1", "u", "c", DateOf(1), DateOf(2), ArrayOf(<<"home">>)),
    Note("n2", "t", "d", DateOf(2), DateOf(2), Undefined) }

\* The salts AES.encrypt can draw for the notes of one saveNotes call
Salts == [1 .. Cardinality(NoteIds) -> 1 .. MaxSalt]

\* The StorageService calls that can be in flight together
Tasks == {1, 2}
NoTask ==
  [op |-> "none", note |-> Null, id |-> "", loaded |-> Null, overlapped |-> FALSE]

\* What is kept of a call that completed
Completed(task) == [op |-> task.op, id |-> task.id, overlapped |-> task.overlapped]

\* A StorageService method is called as task k: it runs up to its first
\* await, AsyncStorage.getItem, which reads the store.
StorageCall(k, op, note, id) ==
  /\ tasks[k].op = "none" /\ \A j \in Tasks : j < k => tasks[j].op # "none"
  /\ LET inFlight == { j \in Tasks : tasks[j].op # "none" }
     IN  tasks' = [j \in Tasks |->
                     IF j = k
                     THEN [NoTask EXCEPT !.op = op, !.note = note, !.id = id,
                                         !.loaded = store, !.overlapped = inFlight # {}]
                     ELSE IF j \in inFlight THEN [tasks[j] EXCEPT !.overlapped = TRUE]
                     ELSE tasks[j]]
  /\ UNCHANGED <<store, last, chainVars, codecVars, mineVars, handlerVars>>

SaveNoteCall == \E k \in Tasks : \E note \in StoreNotes : StorageCall(k, "saveNote", note, note.id)
DeleteNoteCall == \E k \in Tasks : \E id \in NoteIds : StorageCall(k, "deleteNote", Null, id)
GetNoteCall == \E k \in Tasks : \E id \in NoteIds : StorageCall(k, "getNote", Null, id)

\* The same calls, made when no other call is in flight
SaveNoteAlone == (\A j \in Tasks : tasks[j].op = "none") /\ SaveNoteCall
DeleteNoteAlone == (\A j \in Tasks : tasks[j].op = "none") /\ DeleteNoteCall
GetNoteAlone == (\A j \in Tasks : tasks[j].op = "none") /\ GetNoteCall

\* getItem has resolved: saveNote goes on to its end, and setItem writes.
SaveNoteResume ==
  /\ \E k \in Tasks : \E salts \in Salts :
       /\ tasks[k].op = "saveNote"
       /\ LET out == saveNote(tasks[k].loaded, tasks[k].note, salts)
          IN  /\ store' = out.text
              /\ last' = Completed(tasks[k])
       /\ tasks' = [tasks EXCEPT ![k] = NoTask]
  /\ UNCHANGED <<chainVars, codecVars, mineVars, handlerVars>>

DeleteNoteResume ==
  /\ \E k \in Tasks : \E salts \in Salts :
       /\ tasks[k].op = "deleteNote"
       /\ LET out == deleteNote(tasks[k].loaded, tasks[k].id, salts)
          IN  /\ store' = out.text
              /\ last' = Completed(tasks[k])
       /\ tasks' = [tasks EXCEPT ![k] = NoTask]
  /\ UNCHANGED <<chainVars, codecVars, mineVars, handlerVars>>

GetNoteResume ==
  /\ \E k \in Tasks :
       /\ tasks[k].op = "getNote"
       /\ last' = Completed(tasks[k])
       /\ tasks' = [tasks EXCEPT ![k] = NoTask]
  /\ UNCHANGED <<store, chainVars, codecVars, mineVars, handlerVars>>

\* clearAllNotes: AsyncStorage.removeItem(ENCRYPTED_NOTES_KEY)
ClearAllNotes ==
  /\ \A j \in Tasks : tasks[j].op = "none"
  /\ store # Null
  /\ store' = Null
  /\ last' = [op |-> "clearAllNotes", id |-> "", overlapped |-> FALSE]
  /\ UNCHANGED <<tasks, chainVars, codecVars, mineVars, handlerVars>>

NoTamper == [kind |-> "none", index |-> 0]

Init ==
  /\ chain = ArrayOf(<<>>)
  /\ clock = 1
  /\ ret = Ret("init", "", FALSE, FALSE, Null, 0)
  /\ before = ArrayOf(<<>>)
  /\ tamper = NoTamper
  /\ imports = 0
  /\ codec = NoCall
  /\ drawn = 0
  /\ miner = NotMining
  /\ handlers = [h \in Handlers |-> Idle]
  /\ store = Null
  /\ tasks = [k \in Tasks |-> NoTask]
  /\ last = Completed(NoTask)

AddNoteToBlockchain ==
  /\ chain.kind = "array" => Len(chain.items) < MaxChain
  /\ \E p \in Payloads :
     \E t \in clock .. MaxTime : \E tc \in t .. MaxTime :
     \E tu \in tc .. MaxTime : \E tb \in tu .. MaxTime :
       /\ (chain.kind = "array" /\ Len(chain.items) > 0) => (t = clock /\ tc = t /\ tu = t)
       /\ LET out == addNoteToBlockchain(chain, p, t, tc, tu, tb)
          IN  /\ chain' = out.chain
              /\ ret' = Ret("append", p.id, out.threw, FALSE, out.block, 0)
              /\ clock' = IF out.threw THEN clock ELSE tb
       /\ before' = chain
       /\ UNCHANGED <<tamper, imports, codecVars, mineVars, handlerVars, storeVars>>

ValidateChain ==
  /\ LET out == validateChain(chain)
     IN  ret' = Ret("validate", "", out.threw, out.value, Null, 0)
  /\ before' = chain
  /\ UNCHANGED <<chain, clock, tamper, imports, codecVars, mineVars, handlerVars, storeVars>>

GetBlockByNoteId ==
  /\ \E noteId \in NoteIds \cup {"genesis", "n3"} :
       LET out == getBlockByNoteId(chain, noteId)
       IN  ret' = Ret("lookup", noteId, out.threw, FALSE, out.block, 0)
  /\ before' = chain
  /\ UNCHANGED <<chain, clock, tamper, imports, codecVars, mineVars, handlerVars, storeVars>>

GetBlockchainStats ==
  /\ LET out == getBlockchainStats(chain)
     IN  ret' = Ret("stats", "", out.threw, out.isValid, out.lastBlock, out.totalBlocks)
  /\ before' = chain
  /\ UNCHANGED <<chain, clock, tamper, imports, codecVars, mineVars, handlerVars, storeVars>>

ExportBlockchain ==
  /\ ret' = Ret("export", "", FALSE, FALSE, exportBlockchain(chain), 0)
  /\ before' = chain
  /\ UNCHANGED <<chain, clock, tamper, imports, codecVars, mineVars, handlerVars, storeVars>>

GetChain ==
  /\ LET out == getChain(chain)
     IN  ret' = Ret("getChain", "", out.threw, FALSE, out.value, 0)
  /\ before' = chain
  /\ UNCHANGED <<chain, clock, tamper, imports, codecVars, mineVars, handlerVars, storeVars>>

\* importBlockchain with one of the texts cands
ImportFrom(cands) ==
  /\ imports < MaxImports
  /\ imports' = imports + 1
  /\ \E cand \in cands :
       LET out == importBlockchain(chain, cand.text)
       IN  /\ chain' = out.chain
           /\ ret' = Ret("import", cand.tag, FALSE, out.value, Null, 0)
  /\ before' = chain
  /\ UNCHANGED <<clock, tamper, codecVars, mineVars, handlerVars, storeVars>>

ImportBlockchain == ImportFrom(Candidates(chain))

\* importBlockchain with a JSON text that is not an array
ImportNonArray == ImportFrom(NonArrayTexts)

\* importBlockchain with an exported chain, one hash character changed
ImportFlipped ==
  ImportFrom({ [tag |-> "flipHash", text |-> JSONstringify(f)] : f \in HashFlipped(chain) })

\* A caller changes, through a reference it holds (getChain, the block
\* addNoteToBlockchain returned), the payload or the hash of one stored block.
TamperBlock ==
  /\ tamper = NoTamper
  /\ WellFormed(chain) /\ Len(chain.items) >= 1
  /\ \E i \in 1 .. Len(chain.items) :
       \/ /\ chain' = [chain EXCEPT !.items[i].data.encryptedData = "ctX"]
          /\ tamper' = [kind |-> "payload", index |-> i]
       \/ /\ \E h \in FlipsNear(chain.items[i].hash) :
                chain' = [chain EXCEPT !.items[i].hash = h]
          /\ tamper' = [kind |-> "hash", index |-> i]
  /\ ret' = Ret("tamper", "", FALSE, FALSE, Null, 0)
  /\ before' = chain
  /\ UNCHANGED <<clock, imports, codecVars, mineVars, handlerVars, storeVars>>

\* The chain under addNoteToBlockchain and importBlockchain, with the reads.
Next ==
  \/ AddNoteToBlockchain
  \/ ImportBlockchain
  \/ ValidateChain
  \/ GetBlockchainStats
  \/ GetBlockByNoteId

Spec == Init /\ [][Next]_vars

\* A chain built by addNoteToBlockchain alone.
NextAppend ==
  \/ AddNoteToBlockchain
  \/ ValidateChain
  \/ GetBlockchainStats
  \/ GetBlockByNoteId

AppendSpec == Init /\ [][NextAppend]_vars

\* A chain built by addNoteToBlockchain, and imports of JSON texts that are
\* not arrays, with the reads.
NextNonArray ==
  \/ AddNoteToBlockchain
  \/ ImportNonArray
  \/ ValidateChain
  \/ GetBlockchainStats
  \/ GetBlockByNoteId

NonArraySpec == Init /\ [][NextNonArray]_vars

\* Every operation of the chain but importBlockchain.
NextFrame ==
  \/ AddNoteToBlockchain
  \/ ValidateChain
  \/ GetBlockByNoteId
  \/ GetBlockchainStats
  \/ ExportBlockchain
  \/ GetChain

FrameSpec == Init /\ [][NextFrame]_vars

\* A chain built by addNoteToBlockchain, one block of which a caller changes.
NextTamper ==
  \/ AddNoteToBlockchain
  \/ TamperBlock
  \/ ValidateChain

TamperSpec == Init /\ [][NextTamper]_vars

\* A chain built by addNoteToBlockchain, one block of it changed through a
\* reference a caller holds, and getBlockchainStats.
NextStats ==
  \/ AddNoteToBlockchain
  \/ TamperBlock
  \/ GetBlockchainStats

StatsSpec == Init /\ [][NextStats]_vars

\* A chain built by addNoteToBlockchain, and imports of its export with one
\* hash character changed.
NextFlip ==
  \/ AddNoteToBlockchain
  \/ ImportFlipped
  \/ GetBlockchainStats

FlipSpec == Init /\ [][NextFlip]_vars

\* The calls of EncryptionService.
NextCodec ==
  \/ EncryptNote
  \/ DecryptNote
  \/ GenerateHash
  \/ VerifyHash

CodecSpec == Init /\ [][NextCodec]_vars

\* mineBlock calls; the loop, once entered, goes on running.
NextMine ==
  \/ MineCall
  \/ MinePass
  \/ MineReturn

MineSpec ==
  Init /\ [][NextMine]_vars /\ WF_vars(MinePass) /\ WF_vars(MineReturn)

\* The add-to-blockchain handlers, triggered in any number and run by the
\* event loop in any order.
NextHandlers ==
  \/ PressAddToBlockchain
  \/ RunHandler

HandlerSpec == Init /\ [][NextHandlers]_vars

\* The StorageService calls of the screens, one at a time.
NextStorage ==
  \/ SaveNoteAlone
  \/ SaveNoteResume
  \/ DeleteNoteAlone
  \/ DeleteNoteResume
  \/ GetNoteAlone
  \/ GetNoteResume
  \/ ClearAllNotes

StorageSpec == Init /\ [][NextStorage]_vars

\* saveNote and deleteNote calls, up to two in flight together.
NextOverlap ==
  \/ SaveNoteCall
  \/ SaveNoteResume
  \/ DeleteNoteCall
  \/ DeleteNoteResume

OverlapSpec == Init /\ [][NextOverlap]_vars
----------------------------------------------------------------------------
\* The chain invariants of the data model

Items == chain.items
Blocks(c) == c.kind = "array" /\ WellFormed(c)

\* the hash begins with DIFFICULTY characters '0'
MeetsDifficulty(h) == Substring(h, DIFFICULTY) = Zeros(DIFFICULTY)

\* chain[0].previousHash == "0"
GenesisSentinel(c) == c.items[1].previousHash = Sentinel
\* chain[i].previousHash == chain[i-1].hash for i in [1, n)
Linked(c) == \A i \in 2 .. Len(c.items) : c.items[i].previousHash = c.items[i - 1].hash
\* chain[i].hash is the digest of chain[i]'s stored fields, for i in [from - 1, n)
Sealed(c, from) == \A i \in from .. Len(c.items) : c.items[i].hash = calculateHash(c.items[i])
\* chain[i].hash meets the difficulty rule, for i in [from - 1, n)
Mined(c, from) == \A i \in from .. Len(c.items) : MeetsDifficulty(c.items[i].hash)

ChainInvariants(c) ==
  /\ Blocks(c)
  /\ Len(c.items) >= 1 =>
       GenesisSentinel(c) /\ Linked(c) /\ Sealed(c, 1) /\ Mined(c, 1)

ValidTrue == [threw |-> FALSE, value |-> TRUE]

----------------------------------------------------------------------------
\* C1: whenever importBlockchain returns false, it did not raise and the
\* chain is exactly the chain before the call.
C1_FailedImportKeepsChain ==
  (ret.op = "import" /\ ~ret.bool) => (~ret.threw /\ chain = before)

\* C2: importing the export of a valid chain of two blocks or more with one
\* hex character of one stored hash changed returns false, and the statistics
\* then show the count and the tip hash of before the call.
C2_FlippedHashImportRejected ==
  (/\ ret.op = "import" /\ ret.arg = "flipHash"
   /\ Blocks(before) /\ Len(before.items) >= 2
   /\ validateChain(before) = ValidTrue)
  => /\ ~ret.threw /\ ~ret.bool
     /\ ~getBlockchainStats(chain).threw
     /\ getBlockchainStats(chain).totalBlocks = getBlockchainStats(before).totalBlocks
     /\ getBlockchainStats(chain).lastBlock.hash = getBlockchainStats(before).lastBlock.hash

C2_Witness ==
  /\ ret.op = "import" /\ ret.arg = "flipHash" /\ ~ret.bool
  /\ Blocks(before) /\ Len(before.items) >= 3
  /\ validateChain(before) = ValidTrue
  /\ getBlockchainStats(chain).totalBlocks = Len(before.items)

\* C3: whenever importBlockchain returns true, the chain it installed
\* satisfies the four chain invariants (stated here of the installed arrays
\* of blocks only, leaving aside the arrays with null entries).
C3_ImportedChainMeetsInvariants ==
  (ret.op = "import" /\ ret.bool /\ Blocks(chain)) => ChainInvariants(chain)

\* C4: after a chain built by addNoteToBlockchain had the payload or the
\* hash of one stored block changed in place, validateChain returns false.
C4_TamperDetected ==
  (ret.op = "validate" /\ tamper # NoTamper) => (~ret.threw /\ ~ret.bool)

\* C5: validateChain returns true exactly if the genesis block's hash is the
\* digest of its stored fields and every later block passes its hash check
\* and its link check.
C5_ValidateChecksGenesis ==
  (ret.op = "validate" /\ ~ret.threw /\ Blocks(before) /\ Len(before.items) >= 1)
    => (ret.bool <=> (Sealed(before, 1) /\ Linked(before)))

\* C6: validateChain returns true in every state reached from the empty
\* chain by addNoteToBlockchain calls.
C6_ValidAfterAppends ==
  /\ validateChain(chain) = ValidTrue
  /\ ret.op = "validate" => (~ret.threw /\ ret.bool)

C6_Witness ==
  ret.op = "validate" /\ ret.bool /\ Len(Items) >= 3

\* C7: in every state reached by addNoteToBlockchain calls each block's
\* previousHash is its predecessor's hash; after append(n1) then append(n2)
\* on the empty chain, the block found for "n2" has as previousHash the hash
\* of the block found for "n1".
C7_AppendedBlocksLinked ==
  /\ Blocks(chain) /\ Linked(chain)
  /\ (Len(Items) = 3 /\ Items[2].data.id = "n1" /\ Items[3].data.id = "n2")
       => getBlockByNoteId(chain, "n2").block.previousHash
            = getBlockByNoteId(chain, "n1").block.hash

C7_Witness ==
  /\ ret.op = "append" /\ ret.arg = "n2"
  /\ Len(Items) = 3 /\ Items[2].data.id = "n1" /\ Items[3].data.id = "n2"
  /\ getBlockByNoteId(chain, "n2").block = Items[3]

\* C8: in every state reached by addNoteToBlockchain calls every block, the
\* genesis block included, stores the digest of its own stored fields.
C8_AppendedBlocksSealed ==
  Blocks(chain) /\ Sealed(chain, 1)

C8_Witness ==
  /\ ret.op = "append" /\ Len(Items) >= 3
  /\ Items[1].id = "genesis" /\ Items[1].hash = calculateHash(Items[1])

\* C9: after addNoteToBlockchain on the empty chain the genesis block's hash
\* begins with DIFFICULTY characters '0', as every other block's does.
C9_GenesisMeetsDifficulty ==
  (Blocks(chain) /\ Len(Items) >= 1) => MeetsDifficulty(Items[1].hash)

\* C10: every block addNoteToBlockchain mines and pushes (index 1 and up) has
\* a hash whose first DIFFICULTY characters are '0'.
C10_MinedBlocksMeetDifficulty ==
  /\ Blocks(chain) /\ Mined(chain, 2)
  /\ (ret.op = "append" /\ ~ret.threw) => MeetsDifficulty(ret.block.hash)

C10_Witness ==
  /\ ret.op = "append" /\ ~ret.threw /\ Len(Items) >= 3
  /\ ret.block = Items[Len(Items)] /\ ret.block.nonce >= 1
  /\ MeetsDifficulty(ret.block.hash)

\* a block built by createGenesisBlock: previousHash '0', the genesis payload
IsGenesis(b) == b.previousHash = Sentinel \/ b.data.encryptedData = "Genesis Block"

\* C11: addNoteToBlockchain on the empty chain pushes a genesis block first
\* and leaves two blocks, the first with previousHash '0'; on any other chain
\* it pushes one block; so the chain never has one block alone, and its only
\* genesis block is the first.
C11_GenesisOnceAtEmpty ==
  /\ Blocks(chain) /\ Len(Items) # 1
  /\ \A i \in 1 .. Len(Items) : IsGenesis(Items[i]) <=> i = 1
  /\ Len(Items) >= 1 => GenesisSentinel(chain)
  /\ ret.op = "append" =>
       /\ ~ret.threw
       /\ Len(Items) = IF Len(before.items) = 0 THEN 2 ELSE Len(before.items) + 1

C11_Witness ==
  /\ ret.op = "append" /\ Len(before.items) = 0 /\ Len(Items) = 2
  /\ IsGenesis(Items[1]) /\ ~IsGenesis(Items[2])

\* C12: validateChain completes and returns a boolean, without raising, in
\* every state reached by addNoteToBlockchain and importBlockchain calls.
C12_ValidateNeverRaises ==
  ret.op = "validate" => ~ret.threw

\* C13: importBlockchain(exportBlockchain()) on a chain built by
\* addNoteToBlockchain returns true and leaves the same chain, block by block
\* and field by field, payload dates included.
C13_ExportImportRoundTrip ==
  (/\ ret.op = "import" /\ ret.arg = "export"
   /\ Blocks(before) /\ Sealed(before, 1) /\ Mined(before, 2) /\ Linked(before))
  => (ret.bool /\ chain = before /\ validateChain(chain) = ValidTrue)

\* C14: a change a caller makes to an object it holds (the payload it passed,
\* the block it was returned, an element of getChain()) leaves the stored
\* blocks and the result of validateChain as they were.
C14_NoExternalAliasing ==
  ret.op = "tamper" => (chain = before /\ validateChain(chain) = validateChain(before))

\* C15: on a chain built by addNoteToBlockchain, getBlockByNoteId returns
\* null for every id that was never the id of an appended payload.
C15_LookupOfUnknownIdIsNull ==
  (ret.op = "lookup" /\ Blocks(chain)
   /\ ret.arg \notin { Items[i].data.id : i \in 2 .. Len(Items) })
  => (~ret.threw /\ ret.block = Null)

\* C16: getBlockchainStats returns totalBlocks equal to the length of the
\* chain, isValid equal to the result of validateChain in the same state, and
\* lastBlock equal to the last block, or undefined on the empty chain (where
\* totalBlocks is 0 and isValid is true); it leaves the chain as it was.
C16_StatsReportChain ==
  (ret.op = "stats" /\ Blocks(before)) =>
    /\ ~ret.threw
    /\ chain = before
    /\ ret.count = Len(before.items)
    /\ ret.bool = validateChain(before).value
    /\ ret.block = IF Len(before.items) = 0 THEN Undefined
                   ELSE before.items[Len(before.items)]
    /\ Len(before.items) = 0 => (ret.count = 0 /\ ret.bool /\ ret.block = Undefined)

\* stats on a chain of two blocks or more that validateChain rejects
C16_Witness ==
  /\ ret.op = "stats" /\ ~ret.threw /\ Len(Items) >= 2
  /\ ~ret.bool /\ ret.count = Len(Items) /\ ret.block = Items[Len(Items)]

\* C17: decryptNote(encryptNote(n)) succeeds and gives n back: id, title,
\* content, tags, createdAt and updatedAt; the encrypted note carries n's id,
\* createdAt and updatedAt.
C17_DecryptOfEncryptIsNote ==
  /\ codec.op = "encrypt" =>
       /\ ~codec.threw
       /\ codec.payload.id = codec.note.id
       /\ codec.payload.createdAt = codec.note.createdAt
       /\ codec.payload.updatedAt = codec.note.updatedAt
  /\ (codec.op = "decrypt" /\ codec.src = "encryptNote") =>
       /\ codec.arg = codec.payload
       /\ ~codec.threw
       /\ codec.out = codec.note

\* a round trip of a note that has tags
C17_Witness ==
  /\ codec.op = "decrypt" /\ codec.src = "encryptNote" /\ ~codec.threw
  /\ codec.note.tags = ArrayOf(<<"home">>) /\ codec.out.tags = ArrayOf(<<"home">>)

\* C18: decryptNote throws, and returns no note, when the encrypted data is
\* no ciphertext, was encrypted under another key, or decrypts to the empty
\* text or to a text that is no JSON.
C18_DecryptFailurePropagates ==
  (codec.op = "decrypt" /\ codec.src # "encryptNote") =>
    (codec.threw /\ codec.out = Null)

\* C19: two encryptNote calls on the same note draw a salt each and return
\* different encryptedData, and decryptNote gives the same note for both.
C19_EncryptDrawsFreshSalt ==
  (codec.op = "encrypt" /\ codec.prior # Null /\ codec.prior.note = codec.note) =>
    /\ codec.payload.encryptedData # codec.prior.payload.encryptedData
    /\ codec.payload.encryptedData.salt # codec.prior.payload.encryptedData.salt
    /\ \A b1 \in AESdecrypt(codec.payload.encryptedData, ENCRYPTION_KEY) :
       \A b2 \in AESdecrypt(codec.prior.payload.encryptedData, ENCRYPTION_KEY) :
         /\ decryptNote(codec.payload, b1) = decryptNote(codec.prior.payload, b2)
         /\ decryptNote(codec.payload, b1) = [threw |-> FALSE, note |-> codec.note]

C19_Witness ==
  /\ codec.op = "encrypt" /\ codec.prior # Null /\ codec.prior.note = codec.note
  /\ codec.payload # codec.prior.payload

\* C20: generateHash is a function of its argument; verifyHash(data, hash)
\* is generateHash(data) = hash: true for the digest of data, false for the
\* digest of a string whose digest differs.
C20_VerifyIsDigestEquality ==
  /\ codec.op = "hash" => codec.hash = generateHash(codec.data)
  /\ codec.op = "verify" =>
       /\ codec.result <=> (generateHash(codec.data) = codec.hash)
       /\ codec.hash = generateHash(codec.data) => codec.result
       /\ \A y \in HashInputs :
            (/\ y # codec.data /\ codec.hash = generateHash(y)
             /\ generateHash(y) # generateHash(codec.data)) => ~codec.result

\* verifyHash of a string against the digest of another string
C20_Witness ==
  /\ codec.op = "verify" /\ ~codec.result
  /\ \E y \in HashInputs : y # codec.data /\ codec.hash = generateHash(y)

\* C23: addNoteToBlockchain(p) on a chain of n >= 1 blocks leaves n + 1
\* blocks; the block returned is the new last block, its id is p.id, its data
\* is p, its timestamp is the time read in the call, and its previousHash is
\* the hash of the block that was last before the call.
C23_AppendOnNonEmptyChain ==
  (ret.op = "append" /\ Len(before.items) >= 1) =>
    /\ ~ret.threw
    /\ Len(Items) = Len(before.items) + 1
    /\ ret.block = Items[Len(Items)]
    /\ ret.block.id = ret.arg
    /\ ret.block.data \in Payloads /\ ret.block.data.id = ret.arg
    /\ ret.block.timestamp = clock
    /\ ret.block.previousHash = before.items[Len(before.items)].hash

\* an append on a non-empty chain at a later time than the call before
C23_Witness ==
  /\ ret.op = "append" /\ Len(before.items) >= 2 /\ Len(Items) = Len(before.items) + 1
  /\ ret.block.timestamp > before.items[Len(before.items)].timestamp

\* the digest of block b at nonce k
HashAtNonce(b, k) == calculateHash([b EXCEPT !.nonce = k])

\* C24: the block mineBlock returns has the smallest nonce k >= 1 whose
\* digest begins with DIFFICULTY characters '0', and that digest as its hash;
\* nonce 0 is not tried; previousHash, timestamp and data are those of the
\* candidate.
C24_MinedNonceIsSmallest ==
  (ret.op = "append" /\ ~ret.threw) =>
    LET b == ret.block
        candidate == Block(ret.arg, EmptyStr, Items[Len(Items) - 1].hash, clock,
                           CHOOSE p \in Payloads : p.id = ret.arg, 0)
    IN  /\ b = mineBlock(candidate)
        /\ b.nonce >= 1
        /\ b.hash = HashAtNonce(candidate, b.nonce) /\ MeetsDifficulty(b.hash)
        /\ \A k \in 1 .. b.nonce - 1 : ~MeetsDifficulty(HashAtNonce(candidate, k))
        /\ b.previousHash = candidate.previousHash
        /\ b.timestamp = candidate.timestamp
        /\ b.data = candidate.data /\ b.id = candidate.id

\* a block mined in more than sixteen passes of the loop
C24_Witness ==
  /\ ret.op = "append" /\ ~ret.threw
  /\ ret.block.nonce > 16
  /\ MeetsDifficulty(ret.block.hash)

\* C27: when a block with data.id = id exists, getBlockByNoteId(id) returns
\* the one with the lowest index, also when several blocks carry the id.
C27_LookupReturnsEarliest ==
  (ret.op = "lookup" /\ \E i \in 1 .. Len(Items) : Items[i].data.id = ret.arg) =>
    /\ ~ret.threw
    /\ \E i \in 1 .. Len(Items) :
         /\ ret.block = Items[i]
         /\ Items[i].data.id = ret.arg
         /\ \A j \in 1 .. i - 1 : Items[j].data.id # ret.arg

\* a lookup of an id that two blocks carry
C27_Witness ==
  /\ ret.op = "lookup" /\ ~ret.threw /\ ret.block # Null
  /\ \E i, j \in 1 .. Len(Items) :
       i < j /\ Items[i].data.id = ret.arg /\ Items[j].data.id = ret.arg
       /\ ret.block = Items[i] /\ Items[i] # Items[j]

\* C22: addNoteToBlockchain, validateChain, getBlockByNoteId,
\* getBlockchainStats, exportBlockchain and getChain leave every block the
\* chain had, field by field and in its place; only addNoteToBlockchain adds
\* blocks, and it adds them at the end.
C22_BlocksImmutable ==
  ret.op \in {"append", "validate", "lookup", "stats", "export", "getChain"} =>
    /\ Len(before.items) <= Len(Items)
    /\ SubSeq(Items, 1, Len(before.items)) = before.items
    /\ Len(Items) > Len(before.items) => ret.op = "append"
    /\ ret.op = "getChain" => ret.block = chain
    /\ ret.op = "export" => ret.block = JSONstringify(before)

\* an append on a chain of two blocks or more
C22_Witness ==
  /\ ret.op = "append" /\ Len(before.items) >= 2
  /\ Len(Items) = Len(before.items) + 1
  /\ SubSeq(Items, 1, Len(before.items)) = before.items

\* C28: importBlockchain of a JSON text that is not an array (an object, a
\* number, a boolean) returns false and leaves the chain as it was, so that
\* the chain stays an array of blocks.
C28_NonArrayImportRejected ==
  /\ (ret.op = "import" /\ ret.arg \in {"object", "number", "boolean"}) =>
       (~ret.bool /\ chain = before)
  /\ chain.kind \in {"array"}

\* C25: mineBlock has no cap, no timeout and no error outcome: its loop is
\* left only when the test fails, so it returns only a block whose hash, the
\* digest at a nonce >= 1, begins with DIFFICULTY characters '0'; and when
\* such a nonce exists the loop, once entered, does return.
C25_MineReturnsWhenNonceExists ==
  /\ [](miner.pc = "returned" =>
          /\ miner.block.nonce >= 1
          /\ miner.block.hash = calculateHash(miner.block)
          /\ MeetsDifficulty(miner.block.hash))
  /\ [][(miner.pc = "loop" /\ miner'.pc # "loop") => ~mineTest(miner.block)]_vars
  /\ (miner.pc = "loop") ~> (miner.pc = "returned")

\* mineBlock returned after more than sixteen passes
C25_Witness ==
  miner.pc = "returned" /\ miner.block.nonce > 16 /\ MeetsDifficulty(miner.block.hash)

\* the handlers that have run to their end
Done == { h \in Handlers : handlers[h].pc = "done" }

\* C26: handlers triggered together run one after the other, each from its
\* start to its end: whatever the order, no two blocks of the chain have the
\* same previousHash and every block is linked to the one before it.
C26_HandlersDoNotInterleave ==
  /\ \A h \in Handlers : handlers[h].pc \in {"idle", "queued", "done"}
  /\ Blocks(chain) /\ Linked(chain)
  /\ \A i, j \in 1 .. Len(Items) : i # j => Items[i].previousHash # Items[j].previousHash
  /\ Len(Items) = IF Done = {} THEN 0 ELSE Cardinality(Done) + 1
  /\ \A h \in Done : \E i \in 2 .. Len(Items) : Items[i] = handlers[h].block

\* two handlers were queued together and both have run
C26_Witness ==
  /\ Cardinality(Done) >= 2 /\ Len(Items) >= 3
  /\ \E h \in Handlers : handlers[h].pc = "queued"
  /\ ret.op = "append"

\* the notes a stored text holds, as loadNotes reads them
StoredNotes(text) == loadNotes(text).notes
DistinctIds(notes) ==
  \A i, j \in 1 .. Len(notes) : i # j => notes[i].id # notes[j].id

\* C21: what StorageService writes to AsyncStorage is the text of an array
\* of encrypted notes as encryptNote returns them, one for each note: id,
\* encryptedData (a ciphertext under ENCRYPTION_KEY), createdAt, updatedAt,
\* and no title, content or tags.
C21_StoreHoldsEncryptedNotesOnly ==
  store # Null =>
    /\ store.parses /\ store.value.kind = "array"
    /\ DistinctIds(store.value.items)
    /\ \A i \in 1 .. Len(store.value.items) :
         LET e == store.value.items[i]
         IN  /\ DOMAIN e = {"id", "encryptedData", "createdAt", "updatedAt"}
             /\ DOMAIN e.encryptedData = {"key", "salt", "pt"}
             /\ e.encryptedData.key = ENCRYPTION_KEY
             /\ \E note \in StoreNotes : \E salt \in 1 .. MaxSalt :
                  e = dataToJSON(encryptNote(note, salt).payload)

\* two notes were written
C21_Witness ==
  /\ store # Null /\ Len(store.value.items) = 2
  /\ last.op \in {"saveNote", "deleteNote"}
  /\ \A i \in 1 .. 2 : store.value.items[i].encryptedData.key = ENCRYPTION_KEY

\* C29: a saveNote or deleteNote call that completes while another call is
\* in flight, or after another call completed since it began, keeps every
\* note of another id that the store held just before it wrote; saveNote(n)
\* leaves n in the store, deleteNote(id) leaves no note with the id.
C29_NoLostUpdate ==
  [][\A k \in Tasks :
       (tasks[k].op \in {"saveNote", "deleteNote"} /\ tasks'[k].op = "none") =>
         LET old == StoredNotes(store)
             new == StoredNotes(store')
         IN  /\ \A j \in 1 .. Len(old) :
                  old[j].id # tasks[k].id => \E m \in 1 .. Len(new) : new[m] = old[j]
             /\ tasks[k].op = "saveNote" =>
                  \E m \in 1 .. Len(new) : new[m] = tasks[k].note
             /\ tasks[k].op = "deleteNote" =>
                  \A m \in 1 .. Len(new) : new[m].id # tasks[k].id]_vars

\* C30: saveNote(n), run with no other StorageService call in flight on a
\* store of notes with distinct ids, puts n in the place of the stored note
\* with n's id if there is one and at the end if not, leaves the other notes
\* and their order, and afterwards getNote(n.id) gives n's title, content and
\* tags and the ids are distinct.
C30_SaveNoteUpserts ==
  [][\A k \in Tasks :
       (/\ tasks[k].op = "saveNote" /\ tasks'[k].op = "none"
        /\ ~tasks[k].overlapped /\ DistinctIds(StoredNotes(store))) =>
         LET n == tasks[k].note
             old == StoredNotes(store)
             new == StoredNotes(store')
             got == getNote(store', n.id)
         IN  /\ IF \E i \in 1 .. Len(old) : old[i].id = n.id
                THEN /\ Len(new) = Len(old)
                     /\ \A i \in 1 .. Len(old) :
                          new[i] = IF old[i].id = n.id THEN n ELSE old[i]
                ELSE new = Append(old, n)
             /\ DistinctIds(new)
             /\ ~got.threw
             /\ got.note.title = n.title /\ got.note.content = n.content
             /\ got.note.tags = n.tags]_vars

\* saveNote of the first of two stored notes
C30_Witness ==
  /\ last.op = "saveNote" /\ ~last.overlapped /\ last.id = "n1"
  /\ Len(StoredNotes(store)) = 2
  /\ StoredNotes(store)[1].id = "n1" /\ StoredNotes(store)[2].id = "n2"
  /\ \A k \in Tasks : tasks[k].op = "none"
====
